---- MODULE Spec2Model ----
(***************************************************************************)
(* A model of the photo-collage application: the CollageProvider state     *)
(* container (images, settings, asynchronous addImages), the               *)
(* useCollageRenderer hook (source cache, cancellable render passes on the *)
(* shared canvas, exports) and the computeCoverCrop geometry function.     *)
(***************************************************************************)
EXTENDS Integers, Sequences, FiniteSets, TLC

VARIABLES
    images,     \* CollageProvider state.images: sequence of image records
    settings,   \* CollageProvider state.settings
    nextId,     \* number of image ids generated so far (ids are 1..nextId)
    released,   \* released[id]: number of releaseImage calls for image id
    adding,     \* addImages calls whose decodes are still in flight
    view,       \* props of the last committed render of useCollageRenderer
    pending,    \* which effects of useCollageRenderer wait for the next commit
    cache,      \* cacheRef.current: image id -> kind of cached source
    passes,     \* render passes (renderCollage invocations), by slot
    nPasses,    \* number of render passes started so far
    surface,    \* the shared canvas: size, background and composited cells
    crop,       \* one evaluation of computeCoverCrop: inputs and result
    hasCreateImageBitmap,   \* whether globalThis provides createImageBitmap
    exporting,  \* the download or share in progress, or the last one finished
    drag,       \* PreviewStage: dragState.current, activeDragId and the pointers
    clip,       \* one evaluation of the clip radius of a cell: inputs and result
    bitmaps,    \* bitmaps that getSource has decoded and that are not closed
    mounted,    \* whether the CollageProvider is mounted
    position,   \* clientX, clientY of the last event of the pointer that drags
    dest        \* one evaluation of the destination rectangles of a layout: inputs and result

provVars == <<images, settings, nextId, released, adding>>
rendVars == <<view, pending, cache, passes, nPasses, surface>>
vars == <<images, settings, nextId, released, adding,
          view, pending, cache, passes, nPasses, surface, crop, hasCreateImageBitmap, exporting, drag, clip, bitmaps, mounted, position, dest>>

(***************************************************************************)
(* Bounds of the model.                                                    *)
(***************************************************************************)
MaxIds == 6         \* image ids that can be generated in one behaviour
MaxAdds == 2        \* addImages calls in flight at the same time
FocusIds == 2       \* ids left to generate in the focus specification
RenderIds == 2      \* ids left to generate in the renderer specification
FocusSteps == 1     \* focus values are multiples of 1/(2*FocusSteps)
MaxPasses == 3      \* render passes started in one behaviour
MaxSrc == 7         \* largest natural width and height handed to computeCoverCrop
MaxDst == 5         \* largest destination width and height handed to computeCoverCrop
MantBits == 10      \* significand bits of the modelled floating point (binary64 has 53)
MaxNow == 1         \* largest value of Date.now()
Limbs == 4          \* base-2^14 digits held for the fractional part of a pixel computation

(***************************************************************************)
(* Small helpers.                                                          *)
(***************************************************************************)
Min(a, b) == IF a <= b THEN a ELSE b
Max(a, b) == IF a >= b THEN a ELSE b
Ids == 1..MaxIds
Range(s) == {s[i] : i \in 1..Len(s)}
ImageIds(imgs) == {imgs[i].id : i \in 1..Len(imgs)}
\* Math.round of the fraction n/d, d > 0: the nearest integer, halves upwards
MathRound(n, d) == (2 * n + d) \div (2 * d)
\* Array.prototype.slice(from, to) on 0-based indices, to exclusive
Slice(s, from, to) == SubSeq(s, Min(from, Len(s)) + 1, Min(to, Len(s)))

(***************************************************************************)
(* settings.ts / layouts.ts                                                *)
(***************************************************************************)
MAX_IMAGES == 5

\* A cell is <<x, y, width, height>>, each a fraction <<numerator, denominator>>
COLLAGE_LAYOUTS ==
    ( "two-up" :>
        [maxImages |-> 2,
         cells |-> << <<<<0,1>>, <<0,1>>, <<1,2>>, <<1,1>>>>,
                      <<<<1,2>>, <<0,1>>, <<1,2>>, <<1,1>>>> >>] @@
      "two-stack" :>
        [maxImages |-> 2,
         cells |-> << <<<<0,1>>, <<0,1>>, <<1,1>>, <<1,2>>>>,
                      <<<<0,1>>, <<1,2>>, <<1,1>>, <<1,2>>>> >>] @@
      "three-stack" :>
        [maxImages |-> 3,
         cells |-> << <<<<0,1>>, <<0,1>>, <<1,1>>, <<1,3>>>>,
                      <<<<0,1>>, <<1,3>>, <<1,1>>, <<1,3>>>>,
                      <<<<0,1>>, <<2,3>>, <<1,1>>, <<1,3>>>> >>] @@
      "three-column" :>
        [maxImages |-> 3,
         cells |-> << <<<<0,1>>, <<0,1>>, <<1,3>>, <<1,1>>>>,
                      <<<<1,3>>, <<0,1>>, <<1,3>>, <<1,1>>>>,
                      <<<<2,3>>, <<0,1>>, <<1,3>>, <<1,1>>>> >>] @@
      "grid-2x2" :>
        [maxImages |-> 4,
         cells |-> << <<<<0,1>>, <<0,1>>, <<1,2>>, <<1,2>>>>,
                      <<<<1,2>>, <<0,1>>, <<1,2>>, <<1,2>>>>,
                      <<<<0,1>>, <<1,2>>, <<1,2>>, <<1,2>>>>,
                      <<<<1,2>>, <<1,2>>, <<1,2>>, <<1,2>>>> >>] @@
      "feature-left" :>
        [maxImages |-> 3,
         cells |-> << <<<<0,1>>, <<0,1>>, <<3,5>>, <<1,1>>>>,
                      <<<<3,5>>, <<0,1>>, <<2,5>>, <<1,2>>>>,
                      <<<<3,5>>, <<1,2>>, <<2,5>>, <<1,2>>>> >>] @@
      "featured-center" :>
        [maxImages |-> 5,
         cells |-> << <<<<1,5>>, <<1,5>>, <<3,5>>, <<3,5>>>>,
                      <<<<1,5>>, <<0,1>>, <<3,5>>, <<1,5>>>>,
                      <<<<1,5>>, <<4,5>>, <<3,5>>, <<1,5>>>>,
                      <<<<0,1>>, <<1,5>>, <<1,5>>, <<3,5>>>>,
                      <<<<4,5>>, <<1,5>>, <<1,5>>, <<3,5>>>> >>] @@
      "mosaic" :>
        [maxImages |-> 5,
         cells |-> << <<<<0,1>>, <<0,1>>, <<3,5>>, <<3,5>>>>,
                      <<<<3,5>>, <<0,1>>, <<2,5>>, <<7,20>>>>,
                      <<<<3,5>>, <<7,20>>, <<2,5>>, <<13,20>>>>,
                      <<<<0,1>>, <<3,5>>, <<7,20>>, <<2,5>>>>,
                      <<<<7,20>>, <<3,5>>, <<1,4>>, <<2,5>>>> >>] )

LayoutIds == DOMAIN COLLAGE_LAYOUTS
DEFAULT_LAYOUT_ID == "mosaic"

\* COLLAGE_LAYOUTS[id] ?? COLLAGE_LAYOUTS[DEFAULT_LAYOUT_ID]
LayoutOf(layoutId) ==
    IF layoutId \in LayoutIds THEN COLLAGE_LAYOUTS[layoutId]
    ELSE COLLAGE_LAYOUTS[DEFAULT_LAYOUT_ID]

DEFAULT_SETTINGS ==
    [layoutId |-> DEFAULT_LAYOUT_ID, aspectRatioId |-> "4:5",
     gutter |-> 16, cornerRadius |-> 24, backgroundColor |-> "#ffffff"]

(***************************************************************************)
(* Inputs the actions draw from.                                           *)
(***************************************************************************)
FileCounts == {1, MAX_IMAGES + 1}           \* files handed to one addImages call
LayoutChoices == {"two-up", "three-stack", "mosaic"}
LayoutPartials == {[layoutId |-> l] : l \in LayoutChoices}

SquareSize == <<7, 7>>                      \* natural width and height of a square picture
WideSize == <<2, 1>>                        \* of a picture twice as wide as high
NoSize == <<0, 0>>                          \* of a picture without intrinsic dimensions
FocusDen == 2 * FocusSteps                  \* the stored integer f stands for f/FocusDen
FocusInputs == (0 - FocusSteps)..(FocusDen + FocusSteps)
\* { focusX?: number; focusY?: number }: an absent key is undefined
FocusUpdates ==
    {<<>>} \cup {[focusX |-> x] : x \in FocusInputs} \cup {[focusY |-> y] : y \in FocusInputs}
           \cup {[focusX |-> x, focusY |-> y] : x \in FocusInputs, y \in FocusInputs}
IsUndefined(focus, key) == key \notin DOMAIN focus

(***************************************************************************)
(* CollageProvider                                                         *)
(***************************************************************************)
\* prepareImage: the record of a successfully decoded file
prepareImage(id, withBitmap, size) ==
    [id |-> id, width |-> size[1], height |-> size[2], imageBitmap |-> withBitmap,
     focusX |-> FocusSteps, focusY |-> FocusSteps]

\* releaseImage applied to every image of imgs
releaseAll(rel, imgs) ==
    [id \in Ids |-> IF id \in ImageIds(imgs) THEN rel[id] + 1 ELSE rel[id]]

\* clamp01 without its lower bound
clamp01_NoLowerBound(value) == Min(FocusDen, value)
clamp01(value) == Min(FocusDen, Max(0, value))

\* the cap without the layout's own maximum
maxAllowedFor_GlobalOnly(layoutId) == MAX_IMAGES
\* Math.min(MAX_IMAGES, activeLayout.maxImages)
maxAllowedFor(layoutId) == Min(MAX_IMAGES, LayoutOf(layoutId).maxImages)

\* which effects of the renderer hook a state update re-runs at the next commit
Mark(p, what) == IF what = "images" \/ p = "images" THEN "images"
                 ELSE IF what = "render" \/ p = "render" THEN "render" ELSE "none"

\* the calls in flight are kept in ascending order of their number of files:
\* their completions are not ordered, so the order of the calls carries nothing
insertCall(calls, k) ==
    LET below == SelectSeq(calls, LAMBDA c : c <= k)
        above == SelectSeq(calls, LAMBDA c : c > k)
    IN  below \o <<k>> \o above

\* addImages up to the await of Promise.allSettled
AddImagesStart(n) ==
    /\ n >= 1
    /\ Len(adding) < MaxAdds
    /\ adding' = insertCall(adding, Len(Slice([i \in 1..n |-> i], 0, MAX_IMAGES)))
    /\ UNCHANGED <<images, settings, nextId, released>>
    /\ UNCHANGED rendVars
    /\ UNCHANGED <<crop, hasCreateImageBitmap, exporting, drag, clip, bitmaps, mounted, position, dest>>

\* the updater with the incoming images put first
addImagesUpdate_Prepend(imgs, successful, layoutId) ==
    LET availableSlots == Max(0, maxAllowedFor(layoutId) - Len(imgs))
    IN  IF availableSlots <= 0
        THEN [images |-> imgs, release |-> successful, changed |-> FALSE]
        ELSE [images |-> Slice(successful, 0, availableSlots) \o imgs,
              release |-> <<>>, changed |-> TRUE]
\* the setState updater of addImages
addImagesUpdate(imgs, successful, layoutId) ==
    LET maxAllowed == maxAllowedFor(layoutId)
        availableSlots == Max(0, maxAllowed - Len(imgs))
    IN  IF availableSlots <= 0
        THEN [images |-> imgs, release |-> successful, changed |-> FALSE]
        ELSE [images |-> imgs \o Slice(successful, 0, availableSlots),
              release |-> <<>>, changed |-> TRUE]

\* addImages after the await: m of the files of call c decoded, each to the
\* natural size `size`
AddImagesDone(c, m, withBitmap, size) ==
    /\ c \in 1..Len(adding)
    /\ m \in 0..adding[c]
    /\ nextId + m <= MaxIds
    /\ adding' = [i \in 1..(Len(adding) - 1) |-> IF i < c THEN adding[i] ELSE adding[i + 1]]
    /\ nextId' = nextId + m
    /\ LET successful == [i \in 1..m |-> prepareImage(nextId + i, withBitmap, size)]
           upd == addImagesUpdate(images, successful, settings.layoutId)
       IN  IF m = 0
           THEN UNCHANGED <<images, released, pending>>
           ELSE /\ images' = upd.images
                /\ released' = releaseAll(released, upd.release)
                /\ pending' = IF upd.changed THEN Mark(pending, "images") ELSE pending
    /\ UNCHANGED <<settings, view, cache, passes, nPasses, surface, crop, hasCreateImageBitmap, exporting, drag, clip, bitmaps, mounted, position, dest>>

RemoveImage(id) ==
    /\ id \in ImageIds(images)
    /\ released' = [released EXCEPT ![id] = @ + 1]
    /\ images' = SelectSeq(images, LAMBDA image : image.id # id)
    /\ pending' = Mark(pending, "images")
    /\ UNCHANGED <<settings, nextId, adding, view, cache, passes, nPasses, surface, crop, hasCreateImageBitmap, exporting, drag, clip, bitmaps, mounted, position, dest>>

ClearImages ==
    /\ released' = releaseAll(released, images)
    /\ images' = <<>>
    /\ pending' = Mark(pending, "images")
    /\ UNCHANGED <<settings, nextId, adding, view, cache, passes, nPasses, surface, crop, hasCreateImageBitmap, exporting, drag, clip, bitmaps, mounted, position, dest>>

\* the two images exchanged
moveItem_Swap(s, fromIndex, toIndex) ==
    [s EXCEPT ![fromIndex + 1] = s[toIndex + 1], ![toIndex + 1] = s[fromIndex + 1]]
\* next.splice(fromIndex, 1) then next.splice(toIndex, 0, moved), 0-based
moveItem(s, fromIndex, toIndex) ==
    LET moved == s[fromIndex + 1]
        rest == [i \in 1..(Len(s) - 1) |-> IF i <= fromIndex THEN s[i] ELSE s[i + 1]]
    IN  [i \in 1..Len(s) |->
            IF i <= toIndex THEN rest[i]
            ELSE IF i = toIndex + 1 THEN moved ELSE rest[i - 1]]

ReorderImages(fromIndex, toIndex) ==
    /\ fromIndex # toIndex
    /\ ~(fromIndex < 0 \/ fromIndex >= Len(images))
    /\ ~(toIndex < 0 \/ toIndex >= Len(images))
    /\ images' = moveItem(images, fromIndex, toIndex)
    /\ pending' = Mark(pending, "images")
    /\ UNCHANGED <<settings, nextId, released, adding, view, cache, passes, nPasses, surface, crop, hasCreateImageBitmap, exporting, drag, clip, bitmaps, mounted, position, dest>>

\* the Fisher-Yates loop from index i down to 1 (0-based); js[i] is the j drawn at i
RECURSIVE fisherYates(_, _, _)
fisherYates(s, i, js) ==
    IF i <= 0 THEN s
    ELSE LET j == js[i]
             swapped == [s EXCEPT ![i + 1] = s[j + 1], ![j + 1] = s[i + 1]]
         IN  fisherYates(swapped, i - 1, js)

ShuffleImages ==
    /\ ~(Len(images) <= 1)
    /\ \E js \in [1..(Len(images) - 1) -> 0..(Len(images) - 1)] :
          /\ \A i \in DOMAIN js : js[i] <= i
          /\ images' = fisherYates(images, Len(images) - 1, js)
    /\ pending' = Mark(pending, "images")
    /\ UNCHANGED <<settings, nextId, released, adding, view, cache, passes, nPasses, surface, crop, hasCreateImageBitmap, exporting, drag, clip, bitmaps, mounted, position, dest>>

\* { ...prev.settings, ...partial }
mergeSettings(prev, partial) ==
    [k \in DOMAIN prev |-> IF k \in DOMAIN partial THEN partial[k] ELSE prev[k]]

\* nextImages.slice(0, maxAllowed) and nextImages.slice(maxAllowed) of updateSettings
\* a trim that keeps the last maxAllowed images instead of the first
keptImages_Last(imgs, maxAllowed) ==
    IF Len(imgs) > maxAllowed THEN Slice(imgs, Len(imgs) - maxAllowed, Len(imgs)) ELSE imgs
keptImages(imgs, maxAllowed) ==
    IF Len(imgs) > maxAllowed THEN Slice(imgs, 0, maxAllowed) ELSE imgs
trimmedImages_None(imgs, maxAllowed) == <<>>
trimmedImages(imgs, maxAllowed) ==
    IF Len(imgs) > maxAllowed THEN Slice(imgs, maxAllowed, Len(imgs)) ELSE <<>>

UpdateSettings(partial) ==
    LET nextSettings == mergeSettings(settings, partial)
        maxAllowed == maxAllowedFor(nextSettings.layoutId)
    IN  /\ released' = releaseAll(released, trimmedImages(images, maxAllowed))
        /\ images' = keptImages(images, maxAllowed)
        /\ settings' = nextSettings
        /\ pending' = Mark(pending,
                           IF Len(images) > maxAllowed THEN "images"
                           ELSE IF nextSettings # settings THEN "render" ELSE "none")
        /\ UNCHANGED <<nextId, adding, view, cache, passes, nPasses, surface, crop, hasCreateImageBitmap, exporting, drag, clip, bitmaps, mounted, position, dest>>

\* the updater with an axis that is not given put back to the middle
focusedImages_Reset(imgs, id, focus) ==
    LET index == CHOOSE i \in 1..Len(imgs) : imgs[i].id = id
        nextImage == [imgs[index] EXCEPT
                        !.focusX = IF IsUndefined(focus, "focusX") THEN FocusSteps
                                   ELSE clamp01(focus.focusX),
                        !.focusY = IF IsUndefined(focus, "focusY") THEN FocusSteps
                                   ELSE clamp01(focus.focusY)]
    IN  IF id \notin ImageIds(imgs) THEN imgs
        ELSE [imgs EXCEPT ![index] = nextImage]
\* the setState updater of setImageFocus
focusedImages(imgs, id, focus) ==
    LET index == CHOOSE i \in 1..Len(imgs) : imgs[i].id = id
        target == imgs[index]
        nextImage == [target EXCEPT
                        !.focusX = IF IsUndefined(focus, "focusX") THEN @ ELSE clamp01(focus.focusX),
                        !.focusY = IF IsUndefined(focus, "focusY") THEN @ ELSE clamp01(focus.focusY)]
    IN  IF id \notin ImageIds(imgs) THEN imgs
        ELSE [imgs EXCEPT ![index] = nextImage]

SetImageFocus(id, focus) ==
    /\ ~(IsUndefined(focus, "focusX") /\ IsUndefined(focus, "focusY"))
    /\ images' = focusedImages(images, id, focus)
    /\ images' # images
    /\ pending' = Mark(pending, "images")
    /\ UNCHANGED <<settings, nextId, released, adding, view, cache, passes, nPasses, surface, crop, hasCreateImageBitmap, exporting, drag, clip, bitmaps, mounted, position, dest>>

(***************************************************************************)
(* Initial states.  After mount the provider holds no image and the stored *)
(* settings; the renderer hook has run its effects once on the empty image *)
(* list (the canvas is cleared and filled, no pass is left in flight).     *)
(* InitBase(fresh) is that state in a session that has already generated   *)
(* and released all but `fresh` of the MaxIds image ids.                   *)
(***************************************************************************)
\* a slot of passes that holds no render pass; a pass that has returned keeps
\* only how it ended, the state of its last crop canvas and what it composited
Idle ==
    [pc |-> "idle", kind |-> "none", images |-> <<>>, settings |-> DEFAULT_SETTINGS,
     index |-> 0, aborted |-> FALSE, cropCanvas |-> "none", composited |-> {}]
NoCrop == [pc |-> "none"]
NoClip == [pc |-> "none"]

\* PreviewStage after mount: dragState.current is null (no pointerId),
\* activeDragId is null (no image id), no pointer is pressed on a slot
Pointers == {1, 2}
NoDrag ==
    [dragState |-> [pointerId |-> 0], activeDragId |-> 0,
     pressed |-> [pointer \in Pointers |-> 0], captured |-> {}]

EXPORT_BASE_WIDTH == 1080
ASPECT_RATIOS == ("1:1" :> <<1, 1>> @@ "4:5" :> <<4, 5>> @@ "9:16" :> <<9, 16>>)

\* targetSize: the width and Math.round(width / safeRatio)
targetSize(aspectRatioId) ==
    LET ratio == ASPECT_RATIOS[aspectRatioId]
    IN  [width |-> EXPORT_BASE_WIDTH,
         height |-> MathRound(EXPORT_BASE_WIDTH * ratio[2], ratio[1])]

\* the canvas after renderCollage has sized, cleared and filled it
clearedSurface(s) ==
    [width |-> targetSize(s.aspectRatioId).width,
     height |-> targetSize(s.aspectRatioId).height,
     backgroundColor |-> s.backgroundColor, ops |-> {}]

\* no download or share has been started: isExporting is false
NoExport ==
    [op |-> "none", stage |-> "idle", closure |-> [images |-> <<>>, settings |-> DEFAULT_SETTINGS],
     filename |-> <<>>, blob |-> FALSE, encodes |-> 0, failures |-> 0, encoded |-> FALSE,
     intact |-> TRUE,
     saved |-> <<>>, shared |-> 0]

NoDest == [pc |-> "none"]
\* the state after the mount of the provider and of the renderer, with the
\* settings that loadStoredSettings returned
InitWith(fresh, stored) ==
    /\ images = <<>>
    /\ settings = stored
    /\ nextId = MaxIds - Min(fresh, MaxIds)
    /\ released = [id \in Ids |-> IF id <= MaxIds - Min(fresh, MaxIds) THEN 1 ELSE 0]
    /\ adding = <<>>
    /\ view = [images |-> <<>>, settings |-> settings]
    /\ pending = "none"
    /\ cache = [id \in Ids |-> "none"]
    /\ passes = [s \in 1..MaxPasses |-> Idle]
    /\ nPasses = 0
    /\ surface = clearedSurface(settings)
    /\ exporting = NoExport
    /\ drag = NoDrag
    /\ bitmaps = 0
    /\ mounted = TRUE
    /\ position = <<0, 0>>

InitBase(fresh) == InitWith(fresh, DEFAULT_SETTINGS)

(***************************************************************************)
(* The provider on its own: every operation of the context value except    *)
(* setImageFocus, with overlapping addImages calls.                        *)
(***************************************************************************)
InitProvider == InitBase(MaxIds) /\ crop = NoCrop /\ clip = NoClip /\ dest = NoDest /\ hasCreateImageBitmap = TRUE

NextProvider ==
    \/ \E n \in FileCounts : AddImagesStart(n)
    \/ \E c \in 1..MaxAdds, m \in 0..MAX_IMAGES : AddImagesDone(c, m, TRUE, SquareSize)
    \/ \E id \in Ids : RemoveImage(id)
    \/ ClearImages
    \/ \E fromIndex, toIndex \in 0..(MAX_IMAGES - 1) : ReorderImages(fromIndex, toIndex)
    \/ ShuffleImages
    \/ \E partial \in LayoutPartials : UpdateSettings(partial)

SpecProvider == InitProvider /\ [][NextProvider]_vars

(***************************************************************************)
(* The provider until it unmounts.  Every state update has been rendered   *)
(* when the provider unmounts, so latestImages.current is state.images;    *)
(* after the unmount React drops every setState.                           *)
(***************************************************************************)
\* the cleanup of the mount effect
Unmount ==
    /\ mounted
    /\ mounted' = FALSE
    /\ released' = releaseAll(released, images)
    /\ UNCHANGED <<images, settings, nextId, adding>>
    /\ UNCHANGED rendVars
    /\ UNCHANGED <<crop, hasCreateImageBitmap, exporting, drag, clip, bitmaps, position, dest>>

NextUnmount ==
    \/ mounted /\ \E n \in FileCounts : AddImagesStart(n)
    \/ mounted /\ \E c \in 1..MaxAdds, m \in 0..MAX_IMAGES : AddImagesDone(c, m, TRUE, SquareSize)
    \/ mounted /\ \E id \in Ids : RemoveImage(id)
    \/ mounted /\ ClearImages
    \/ mounted /\ \E fromIndex, toIndex \in 0..(MAX_IMAGES - 1) : ReorderImages(fromIndex, toIndex)
    \/ mounted /\ ShuffleImages
    \/ mounted /\ \E partial \in LayoutPartials : UpdateSettings(partial)
    \/ Unmount

SpecUnmount == InitProvider /\ [][NextUnmount]_vars

(***************************************************************************)
(* The provider with setImageFocus, on the last FocusIds image ids.        *)
(***************************************************************************)
InitFocus == InitBase(FocusIds) /\ crop = NoCrop /\ clip = NoClip /\ dest = NoDest /\ hasCreateImageBitmap = TRUE

NextFocus ==
    \/ AddImagesStart(1)
    \/ \E c \in 1..MaxAdds, m \in 0..1 : AddImagesDone(c, m, TRUE, SquareSize)
    \/ \E id \in Ids : RemoveImage(id)
    \/ \E partial \in LayoutPartials : UpdateSettings(partial)
    \/ \E id \in Ids, focus \in FocusUpdates : SetImageFocus(id, focus)

SpecFocus == InitFocus /\ [][NextFocus]_vars

(***************************************************************************)
(* Floating point.  A JavaScript number is an IEEE 754 binary64: every     *)
(* arithmetic result is rounded to the nearest value with a 53-bit         *)
(* significand, ties to even.  TLC's integers are 32 bits wide, so the     *)
(* model rounds the same way to MantBits significand bits.  A number is a  *)
(* fraction <<numerator, denominator>> in lowest terms.                    *)
(***************************************************************************)
RECURSIVE Gcd(_, _)
Gcd(a, b) == IF b = 0 THEN a ELSE Gcd(b, a % b)
Abs(a) == IF a < 0 THEN 0 - a ELSE a
Reduce(n, d) == LET g == Gcd(Abs(n), d) IN <<n \div g, d \div g>>
RECURSIVE Pow2(_)
Pow2(k) == IF k <= 0 THEN 1 ELSE 2 * Pow2(k - 1)

RoundHalfEven(n, d) ==
    LET q == n \div d
        r == n % d
    IN  IF 2 * r > d \/ (2 * r = d /\ q % 2 = 1) THEN q + 1 ELSE q

\* the value (n/d) * (up/dn), n > 0, rounded to MantBits significant bits
RECURSIVE RoundPos(_, _, _, _)
RoundPos(n, d, up, dn) ==
    IF n >= d * Pow2(MantBits) THEN RoundPos(n, 2 * d, 2 * up, dn)
    ELSE IF n < d * Pow2(MantBits - 1) THEN RoundPos(2 * n, d, up, 2 * dn)
    ELSE Reduce(RoundHalfEven(n, d) * up, dn)

Fl(n, d) ==
    IF n = 0 THEN <<0, 1>>
    ELSE IF n > 0 THEN RoundPos(n, d, 1, 1)
    ELSE LET r == RoundPos(0 - n, d, 1, 1) IN <<0 - r[1], r[2]>>

Num(k) == <<k, 1>>
FDiv(a, b) == Fl(a[1] * b[2], a[2] * b[1])            \* a / b, b > 0
FMul(a, b) == Fl(a[1] * b[1], a[2] * b[2])            \* a * b
FSub(a, b) == Fl(a[1] * b[2] - b[1] * a[2], a[2] * b[2])   \* a - b
Leq(a, b) == a[1] * b[2] <= b[1] * a[2]
FMax(a, b) == IF Leq(a, b) THEN b ELSE a
FMin(a, b) == IF Leq(a, b) THEN a ELSE b

(***************************************************************************)
(* useCollageRenderer.ts: computeCoverCrop                                 *)
(***************************************************************************)
\* a scale that fits the source inside the target instead of covering it
coverScale_Fit(byWidth, byHeight) == FMin(byWidth, byHeight)
\* Math.max(targetWidth / sourceWidth, targetHeight / sourceHeight)
coverScale(byWidth, byHeight) == FMax(byWidth, byHeight)

computeCoverCrop(sourceWidth, sourceHeight, targetWidth, targetHeight, focusX, focusY) ==
    LET scale == coverScale(FDiv(targetWidth, sourceWidth), FDiv(targetHeight, sourceHeight))
        cropWidth == FDiv(targetWidth, scale)
        cropHeight == FDiv(targetHeight, scale)
        maxOffsetX == FMax(Num(0), FSub(sourceWidth, cropWidth))
        maxOffsetY == FMax(Num(0), FSub(sourceHeight, cropHeight))
        sx == FMul(maxOffsetX, FMin(Num(1), FMax(Num(0), focusX)))
        sy == FMul(maxOffsetY, FMin(Num(1), FMax(Num(0), focusY)))
    IN  [sx |-> sx, sy |-> sy, sw |-> cropWidth, sh |-> cropHeight,
         maxOffsetX |-> maxOffsetX, maxOffsetY |-> maxOffsetY]

(***************************************************************************)
(* computeCoverCrop on its own: Init draws the arguments (integer sizes,   *)
(* focal points in [0,1]), the one action applies the function.            *)
(***************************************************************************)
InitCrop ==
    /\ InitBase(MaxIds)
    /\ hasCreateImageBitmap = TRUE
    /\ clip = NoClip
    /\ dest = NoDest
    /\ crop \in [pc : {"args"},
                 sw : 1..MaxSrc, sh : 1..MaxSrc, dw : 1..MaxDst, dh : 1..MaxDst,
                 fx : 0..FocusDen, fy : 0..FocusDen]

ComputeCrop ==
    /\ crop.pc = "args"
    /\ crop' = [pc |-> "done",
                sw |-> crop.sw, sh |-> crop.sh, dw |-> crop.dw, dh |-> crop.dh,
                fx |-> crop.fx, fy |-> crop.fy,
                out |-> computeCoverCrop(Num(crop.sw), Num(crop.sh), Num(crop.dw), Num(crop.dh),
                                         Reduce(crop.fx, FocusDen), Reduce(crop.fy, FocusDen))]
    /\ UNCHANGED provVars
    /\ UNCHANGED rendVars
    /\ UNCHANGED <<hasCreateImageBitmap, exporting, drag, clip, bitmaps, mounted, position, dest>>

NextCrop == ComputeCrop

SpecCrop == InitCrop /\ [][NextCrop]_vars

(***************************************************************************)
(* binary64 on the pixel computations of renderCollage.  The operands      *)
(* there (a cell fraction, a canvas size, the gutter) are small enough to  *)
(* be held exactly: a number is [int, frac], its integer part and its      *)
(* fractional part as Limbs digits of base 2^LimbBits, most significant    *)
(* first, and every result is rounded to SignificandBits significant bits, *)
(* ties to even, as the hardware does.                                     *)
(***************************************************************************)
SignificandBits == 53
LimbBits == 14
Base == Pow2(LimbBits)
FracBits == Limbs * LimbBits

RECURSIVE BitLength(_)
BitLength(i) == IF i <= 0 THEN 0 ELSE 1 + BitLength(i \div 2)

\* the first k digits of r/d, 0 <= r < d, and the remainder after them
RECURSIVE fracDigits(_, _, _)
fracDigits(r, d, k) ==
    IF k = 0 THEN [digits |-> <<>>, rem |-> r]
    ELSE LET rest == fracDigits((r * Base) % d, d, k - 1)
         IN  [digits |-> <<(r * Base) \div d>> \o rest.digits, rem |-> rest.rem]

\* the number of zero bits in front of the first one bit of f
RECURSIVE leadingZeros(_, _)
leadingZeros(f, j) ==
    IF j > Len(f) THEN FracBits
    ELSE IF f[j] # 0 THEN j * LimbBits - BitLength(f[j])
    ELSE leadingZeros(f, j + 1)

\* u added to digit j (j = 0: one added to the integer part)
RECURSIVE addAt(_, _, _, _)
addAt(i, f, j, u) ==
    IF j = 0 THEN [int |-> i + 1, frac |-> f]
    ELSE IF f[j] + u < Base THEN [int |-> i, frac |-> [f EXCEPT ![j] = @ + u]]
    ELSE addAt(i, [f EXCEPT ![j] = @ + u - Base], j - 1, 1)

\* round to nearest, ties to even, where the last bit kept has the weight
\* `unit` in digit q + 1 and `low` is what that digit holds below it
roundLow(i, f, sticky, q, unit, low) ==
    LET guard == 2 * low >= unit
        rest == sticky \/ (2 * low) % unit # 0 \/ \E j \in (q + 2)..Len(f) : f[j] # 0
        lsb == IF unit < Base THEN (f[q + 1] \div unit) % 2
               ELSE IF q >= 1 THEN f[q] % 2 ELSE i % 2
        cut == [j \in 1..Len(f) |->
                   IF j <= q THEN f[j] ELSE IF j = q + 1 THEN f[j] - low ELSE 0]
    IN  IF guard /\ (rest \/ lsb = 1)
        THEN (IF unit < Base THEN addAt(i, cut, q + 1, unit) ELSE addAt(i, cut, q, 1))
        ELSE [int |-> i, frac |-> cut]

\* round to nearest, ties to even, keeping `keep` bits of the fraction
roundAt(i, f, sticky, keep, q, unit) ==
    IF keep >= FracBits THEN [int |-> i, frac |-> f]
    ELSE roundLow(i, f, sticky, q, unit, f[q + 1] % unit)

\* the number of bits of the fraction that the significand of i + f reaches
kept(i, f) ==
    IF i > 0 THEN SignificandBits - BitLength(i) ELSE leadingZeros(f, 1) + SignificandBits

\* digit q + 1 holds the last bit kept, with the weight `unit`
roundKeeping(i, f, sticky, keep) ==
    roundAt(i, f, sticky, keep, keep \div LimbBits, Pow2(LimbBits - (keep % LimbBits)))

\* round to nearest, ties to even; sticky: non-zero bits follow after f
roundToDouble(i, f, sticky) == roundKeeping(i, f, sticky, kept(i, f))

\* the double closest to n/d: a numeric literal, or a quotient of two integers
rounded(whole, expansion) == roundToDouble(whole, expansion.digits, expansion.rem # 0)
toDouble(n, d) == rounded(n \div d, fracDigits(n % d, d, Limbs))

\* the digits of f times k from digit j down to the first, and the carry
RECURSIVE timesDigits(_, _, _, _)
timesDigits(f, k, j, carry) ==
    IF j = 0 THEN [digits |-> f, carry |-> carry]
    ELSE LET t == f[j] * k + carry
         IN  timesDigits([f EXCEPT ![j] = t % Base], k, j - 1, t \div Base)

\* a * k for an integer k >= 0
carried(whole, product) == roundToDouble(whole + product.carry, product.digits, FALSE)
timesInt(a, k) == carried(a.int * k, timesDigits(a.frac, k, Len(a.frac), 0))

\* a + h/2 for an integer h, where the sum is not negative
plusHalves(a, h) ==
    LET whole == a.int + ((h - (h % 2)) \div 2)
        half == Base \div 2
        sum == IF h % 2 = 0 THEN a
               ELSE IF a.frac[1] < half
               THEN [int |-> 0, frac |-> [a.frac EXCEPT ![1] = @ + half]]
               ELSE [int |-> 1, frac |-> [a.frac EXCEPT ![1] = @ - half]]
    IN  roundToDouble(whole + (IF h % 2 = 0 THEN 0 ELSE sum.int), sum.frac, FALSE)

\* Math.round of a double that is not negative
roundDouble(a) == a.int + (IF 2 * a.frac[1] >= Base THEN 1 ELSE 0)

(***************************************************************************)
(* useCollageRenderer.ts: render passes.  A pass is one invocation of      *)
(* renderCollage.  It runs from one await to the next without interruption;*)
(* the operators below are those stretches, the actions further down are   *)
(* the invocations and the completions of the awaited promises.  A call of *)
(* getSource that returns without awaiting a decode (cache hit, or the     *)
(* image's own bitmap) resumes the pass in the same microtask checkpoint,  *)
(* before any event, effect or decode completion, and is part of the same  *)
(* stretch.                                                                *)
(***************************************************************************)
Slots == 1..MaxPasses
InFlight(pass) == pass.pc \in {"bitmap", "element", "resize"}
Ended(pass, how) ==
    [Idle EXCEPT !.pc = how, !.cropCanvas = pass.cropCanvas, !.composited = pass.composited]

\* Math.round(fraction * size + gutter / 2)
destOffset_NoGutter(fraction, size, gutter) ==
    roundDouble(timesInt(toDouble(fraction[1], fraction[2]), size))
destOffset(fraction, size, gutter) ==
    roundDouble(plusHalves(timesInt(toDouble(fraction[1], fraction[2]), size), gutter))

\* Math.max(1, Math.round(fraction * size - gutter))
reduced(product, gutter) ==
    IF product.int < gutter THEN 1
    ELSE Max(1, roundDouble(plusHalves(product, 0 - 2 * gutter)))
destExtent(fraction, size, gutter) ==
    reduced(timesInt(toDouble(fraction[1], fraction[2]), size), gutter)

\* Math.max(settings.cornerRadius - gutter / 2, 0)
effectiveCornerRadius_WholeGutter(setts) == Reduce(Max(setts.cornerRadius - setts.gutter, 0), 1)
effectiveCornerRadius(setts) == Reduce(Max(2 * setts.cornerRadius - setts.gutter, 0), 2)

\* the destination rectangle of cell index (0-based)
destRect(layoutId, aspectRatioId, gutter, index) ==
    LET cell == LayoutOf(layoutId).cells[index + 1]
        size == targetSize(aspectRatioId)
    IN  [destX |-> destOffset(cell[1], size.width, gutter),
         destY |-> destOffset(cell[2], size.height, gutter),
         destWidth |-> destExtent(cell[3], size.width, gutter),
         destHeight |-> destExtent(cell[4], size.height, gutter)]

\* the rectangles of the gutters that the specifications use, computed once
Gutters == {0, DEFAULT_SETTINGS.gutter}
destRects ==
    [layoutId \in LayoutIds |-> [aspectRatioId \in DOMAIN ASPECT_RATIOS |-> [gutter \in Gutters |->
        [i \in 1..Len(COLLAGE_LAYOUTS[layoutId].cells) |->
            destRect(layoutId, aspectRatioId, gutter, i - 1)]]]]

\* images[index]: the image that cell index (0-based) is paired with
pairedImage_FromEnd(imgs, index) == imgs[Len(imgs) - index]
pairedImage(imgs, index) == imgs[index + 1]

\* !image || !image.width || !image.height
skipped(imgs, index) ==
    \/ index >= Len(imgs)
    \/ pairedImage(imgs, index).width = 0
    \/ pairedImage(imgs, index).height = 0

\* roundedRect: the radius r of the corners of the path it traces
roundedRect_Uncapped(width, height, radius) == FMax(Num(0), radius)
roundedRect(width, height, radius) ==
    FMax(Num(0), FMin(radius, Reduce(Min(width, height), 2)))

\* the destination rectangle of cell index (0-based) under setts
rectOf(setts, index) ==
    IF setts.layoutId \in LayoutIds /\ setts.gutter \in Gutters
    THEN destRects[setts.layoutId][setts.aspectRatioId][setts.gutter][index + 1]
    ELSE destRect(setts.layoutId, setts.aspectRatioId, setts.gutter, index)

\* one iteration's clip and draw: the rectangle, the radius handed to
\* roundedRect, the radius r it traces, and the image
drawnCell(rect, radius, image) ==
    [destX |-> rect.destX, destY |-> rect.destY,
     destWidth |-> rect.destWidth, destHeight |-> rect.destHeight,
     effectiveCornerRadius |-> radius,
     r |-> roundedRect(rect.destWidth, rect.destHeight, radius),
     id |-> image.id, focusX |-> image.focusX, focusY |-> image.focusY]

\* the destination rectangle, clip radius and source of cell index (0-based)
cellOp(imgs, setts, index) ==
    drawnCell(rectOf(setts, index), effectiveCornerRadius(setts), pairedImage(imgs, index))

sameRect(a, b) ==
    /\ a.destX = b.destX /\ a.destY = b.destY
    /\ a.destWidth = b.destWidth /\ a.destHeight = b.destHeight
    /\ a.r = b.r

\* clip to the rounded rectangle and draw: what was drawn in the same clip is replaced
composite(s, op) == [s EXCEPT !.ops = {o \in @ : ~sameRect(o, op)} \cup {op}]

\* the surface a pass over imgs and setts draws when nothing else writes to it
expectedSurface(imgs, setts) ==
    LET cells == 0..(Len(LayoutOf(setts.layoutId).cells) - 1)
    IN  [clearedSurface(setts) EXCEPT
            !.ops = {cellOp(imgs, setts, i) : i \in {c \in cells : ~skipped(imgs, c)}}]

\* the checks of signal?.aborted after getSource and after pica.resize
abortedAfterSource(pass) == pass.aborted
\* a pass that does not look at its signal once the resample has resolved
abortedAfterResample_Unchecked(pass) == FALSE
abortedAfterResample(pass) == pass.aborted

\* the source that getSource returned is the image's own bitmap and releaseImage
\* has closed it: drawImage throws
detached(pass, c) ==
    c[pairedImage(pass.images, pass.index).id] = "imageBitmap"
    /\ released[pairedImage(pass.images, pass.index).id] > 0

\* from the return of getSource to the await of pica.resize
afterSource(pass, c) ==
    IF abortedAfterSource(pass) THEN [pass |-> Ended(pass, "cancelled"), cache |-> c]
    ELSE IF detached(pass, c) THEN [pass |-> Ended(pass, "failed"), cache |-> c]
    ELSE LET drawn == [pass EXCEPT !.cropCanvas = "drawn"]
         IN  IF drawn.aborted THEN [pass |-> Ended(drawn, "cancelled"), cache |-> c]
             ELSE [pass |-> [drawn EXCEPT !.pc = "resize"], cache |-> c]

\* the for loop from the head of iteration pass.index to the next await or return
RECURSIVE cellLoop(_, _, _)
cellLoop(pass, c, api) ==
    IF ~(pass.index < Len(LayoutOf(pass.settings.layoutId).cells))
    THEN [pass |-> Ended(pass, "done"), cache |-> c]
    ELSE IF pass.aborted THEN [pass |-> Ended(pass, "cancelled"), cache |-> c]
    ELSE IF skipped(pass.images, pass.index)
    THEN cellLoop([pass EXCEPT !.index = @ + 1], c, api)
    ELSE LET image == pairedImage(pass.images, pass.index)
             blank == [pass EXCEPT !.cropCanvas = "blank"]
         IN  IF c[image.id] # "none" THEN afterSource(blank, c)
             ELSE IF image.imageBitmap
             THEN afterSource(blank, [c EXCEPT ![image.id] = "imageBitmap"])
             ELSE IF api THEN [pass |-> [blank EXCEPT !.pc = "bitmap"], cache |-> c]
             ELSE [pass |-> [blank EXCEPT !.pc = "element"], cache |-> c]

\* renderCollage from its call to its first await or return
startPass(kind, imgs, setts, c, api) ==
    LET pass == [pc |-> "start", kind |-> kind, images |-> imgs, settings |-> setts,
                 index |-> 0, aborted |-> FALSE, cropCanvas |-> "none", composited |-> {}]
    IN  IF Len(imgs) = 0 THEN [pass |-> Ended(pass, "done"), cache |-> c]
        ELSE cellLoop(pass, c, api)

\* the pass and the cache after a stretch that has composited op on s
drawnOn(next, s, op) == [pass |-> next.pass, cache |-> next.cache, surface |-> composite(s, op)]

\* from the return of pica.resize to the next await or return
afterResample(pass, c, s, api) ==
    IF abortedAfterResample(pass)
    THEN [pass |-> Ended(pass, "cancelled"), cache |-> c, surface |-> s]
    ELSE drawnOn(cellLoop([pass EXCEPT !.index = @ + 1,
                                       !.composited = @ \cup {<<pass.index,
                                                                pairedImage(pass.images, pass.index).id>>}],
                          c, api),
                 s, cellOp(pass.images, pass.settings, pass.index))

\* the image whose source a pass is waiting for in getSource
decoding(pass) == pairedImage(pass.images, pass.index).id

\* the effect on [images]: entries of images that are no longer active are dropped
evict(c, imgs) == [id \in Ids |-> IF id \in ImageIds(imgs) THEN c[id] ELSE "none"]

\* the entries that the effect on [images] drops and that have a dispose: the
\* bitmaps that getSource decoded
disposed(c, imgs) == Cardinality({id \in Ids : id \notin ImageIds(imgs) /\ c[id] = "decoded"})

\* React commits the provider's new state: the cleanup of the previous render
\* effect aborts its controller, the eviction effect runs if images changed,
\* and the render effect invokes renderCollage with a new controller's signal
Commit ==
    /\ pending # "none"
    /\ nPasses < MaxPasses
    /\ LET evicted == IF pending = "images" THEN evict(cache, images) ELSE cache
           started == startPass("preview", images, settings, evicted, hasCreateImageBitmap)
       IN  /\ passes' = [p \in Slots |->
                            IF p = nPasses + 1 THEN started.pass
                            ELSE IF InFlight(passes[p]) /\ passes[p].kind = "preview"
                            THEN [passes[p] EXCEPT !.aborted = TRUE]
                            ELSE passes[p]]
           /\ cache' = started.cache
    /\ surface' = clearedSurface(settings)
    /\ view' = [images |-> images, settings |-> settings]
    /\ pending' = "none"
    /\ nPasses' = nPasses + 1
    /\ bitmaps' = IF pending = "images" THEN bitmaps - disposed(cache, images) ELSE bitmaps
    /\ UNCHANGED <<provVars, crop, hasCreateImageBitmap, exporting, drag, clip, mounted, position, dest>>

(***************************************************************************)
(* useCollageRenderer.ts: download and share.  A file name is the sequence *)
(* of its parts' characters.                                               *)
(***************************************************************************)
isExporting == exporting.stage \notin {"idle", "finished"}

\* the characters of the aspect ratio ids
Characters == ("1:1" :> <<"1", ":", "1">> @@ "4:5" :> <<"4", ":", "5">> @@
               "9:16" :> <<"9", ":", "1", "6">>)

\* String.prototype.replace(from, to) with one-character strings: the first match
replace(chars, from, to) ==
    LET matches == {i \in 1..Len(chars) : chars[i] = from}
        first == CHOOSE i \in matches : \A j \in matches : i <= j
    IN  IF matches = {} THEN chars ELSE [chars EXCEPT ![first] = to]

\* the decimal digits of a number, as a template literal prints it
Digits == <<"0", "1", "2", "3", "4", "5", "6", "7", "8", "9">>
RECURSIVE decimal(_)
decimal(n) == IF n < 10 THEN <<Digits[n + 1]>> ELSE decimal(n \div 10) \o <<Digits[(n % 10) + 1]>>

\* `collage-${settings.aspectRatioId.replace(':', '-')}.jpg`
downloadFilename(aspectRatioId) ==
    <<"collage-">> \o replace(Characters[aspectRatioId], ":", "-") \o <<".jpg">>
\* `collage-${Date.now()}.jpg`
shareFilename(now) == <<"collage-">> \o decimal(now) \o <<".jpg">>

\* saveBlob(blob, filename)
saveBlob(ex) == [ex EXCEPT !.saved = Append(@, ex.filename)]
\* the finally block: setIsExporting(false)
finish(ex) == [ex EXCEPT !.stage = "finished", !.closure = NoExport.closure]

\* a share that gives up when navigator.share rejects
shareRejected_NoSave(ex) == finish(ex)
\* the catch block of share with a blob at hand
shareRejected(ex) == finish(saveBlob(ex))

\* the renderer and the export take the values of next, unless that needs
\* more passes than the model holds
become(next) ==
    /\ next.nPasses <= MaxPasses
    /\ passes' = next.passes
    /\ cache' = next.cache
    /\ surface' = next.surface
    /\ nPasses' = next.nPasses
    /\ exporting' = next.exporting
    /\ UNCHANGED <<provVars, view, pending, crop, hasCreateImageBitmap, drag, clip>>

\* generateBlob once its renderCollage() over imgs and setts has returned:
\* canvasToBlob is called on the canvas as it is
rendered(st, imgs, setts) ==
    [st EXCEPT !.exporting =
        [@ EXCEPT !.stage = IF @ = "render" THEN "encode" ELSE "encodeAgain",
                  !.encodes = @ + 1,
                  !.intact = (st.surface = expectedSurface(imgs, setts))]]

\* await renderCollage(): generateBlob goes on at once when the pass has returned
awaited(next, ex, started) ==
    IF started.pass.pc = "done" THEN rendered(next, ex.closure.images, ex.closure.settings)
    ELSE next

\* an export that starts without setIsExporting(true)
exportStarted_Unflagged(st, ex, stage, started) ==
    [passes |-> [st.passes EXCEPT ![st.nPasses + 1] = started.pass],
     cache |-> started.cache,
     surface |-> clearedSurface(ex.closure.settings),
     nPasses |-> st.nPasses + 1,
     exporting |-> [ex EXCEPT !.stage = "idle"]]
\* generateBlob up to the first await of its renderCollage(), a pass without a
\* signal, or up to canvasToBlob when that pass has nothing to wait for
exportStarted(st, ex, stage, started) ==
    awaited([passes |-> [st.passes EXCEPT ![st.nPasses + 1] = started.pass],
             cache |-> started.cache,
             surface |-> clearedSurface(ex.closure.settings),
             nPasses |-> st.nPasses + 1,
             exporting |-> [ex EXCEPT !.stage = stage]], ex, started)
startExport(st, ex, stage) ==
    IF st.nPasses >= MaxPasses THEN [st EXCEPT !.nPasses = @ + 1]
    ELSE exportStarted(st, ex, stage, startPass("export", ex.closure.images, ex.closure.settings,
                                                st.cache, hasCreateImageBitmap))

\* what follows a stretch of pass `before` that left it as `after`: when `before`
\* is the pass generateBlob awaits and it has returned, canvasToBlob is called on
\* the canvas as it is; when it has thrown, download gives up and share renders
\* once more in its catch block (and gives up if that render throws too)
settled(st, before, after) ==
    LET ex == st.exporting
    IN  IF ~(before.kind = "export" /\ ~InFlight(after)) THEN st
        ELSE IF after.pc = "done" THEN rendered(st, before.images, before.settings)
        ELSE IF ex.op = "share" /\ ex.stage = "render" THEN startExport(st, ex, "renderAgain")
        ELSE [st EXCEPT !.exporting = finish(ex)]

\* download up to the first await of the renderCollage() that generateBlob calls;
\* the button is disabled while isExporting
Download ==
    /\ pending = "none"
    /\ ~(Len(view.images) = 0)
    /\ ~isExporting
    /\ LET ex == [NoExport EXCEPT !.op = "download", !.closure = view,
                                  !.filename = downloadFilename(view.settings.aspectRatioId)]
           next == startExport([passes |-> passes, cache |-> cache, surface |-> surface,
                                nPasses |-> nPasses, exporting |-> ex], ex, "render")
       IN  become(next)
    /\ UNCHANGED <<bitmaps, mounted, position, dest>>

\* share up to the first await of the renderCollage() that generateBlob calls
Share(now) ==
    /\ pending = "none"
    /\ ~(Len(view.images) = 0)
    /\ ~isExporting
    /\ LET ex == [NoExport EXCEPT !.op = "share", !.closure = view,
                                  !.filename = shareFilename(now)]
           next == startExport([passes |-> passes, cache |-> cache, surface |-> surface,
                                nPasses |-> nPasses, exporting |-> ex], ex, "render")
       IN  become(next)
    /\ UNCHANGED <<bitmaps, mounted, position, dest>>

\* canvas.toBlob calls back, with a blob or with null.  route: what share finds
\* for navigator.share and navigator.canShare
EncodeDone(ok, route) ==
    /\ exporting.stage \in {"encode", "encodeAgain"}
    /\ LET ex == [exporting EXCEPT !.encoded = @ \/ ok,
                                   !.failures = IF ok THEN @ ELSE @ + 1,
                                   !.blob = IF exporting.stage = "encode" THEN ok ELSE @]
           st == [passes |-> passes, cache |-> cache, surface |-> surface,
                  nPasses |-> nPasses, exporting |-> ex]
           next == IF ex.stage = "encodeAgain" \/ ex.op = "download"
                   THEN [st EXCEPT !.exporting = IF ok THEN finish(saveBlob(ex)) ELSE finish(ex)]
                   ELSE IF ~ok THEN startExport(st, ex, "renderAgain")
                   ELSE IF route = "share" THEN [st EXCEPT !.exporting.stage = "sharing"]
                   ELSE [st EXCEPT !.exporting = finish(saveBlob(ex))]
       IN  become(next)
    /\ UNCHANGED <<bitmaps, mounted, position, dest>>

\* navigator.share settles
ShareDone(ok) ==
    /\ exporting.stage = "sharing"
    /\ exporting' = IF ok THEN finish([exporting EXCEPT !.shared = @ + 1])
                    ELSE shareRejected(exporting)
    /\ UNCHANGED <<provVars, rendVars, crop, hasCreateImageBitmap, drag, clip, bitmaps, mounted, position, dest>>

\* the rest of a render pass after one of its awaits has settled with `step`
resume(p, step) ==
    become(settled([passes |-> [passes EXCEPT ![p] = step.pass], cache |-> step.cache,
                    surface |-> step.surface, nPasses |-> nPasses,
                    exporting |-> exporting], passes[p], step.pass))

\* createImageBitmap(image.file) of getSource settles
CreateImageBitmapDone(p, ok) ==
    /\ passes[p].pc = "bitmap"
    /\ LET pass == passes[p]
           next == afterSource(pass, [cache EXCEPT ![decoding(pass)] = "decoded"])
       IN  IF ok THEN resume(p, [pass |-> next.pass, cache |-> next.cache, surface |-> surface])
           ELSE resume(p, [pass |-> [pass EXCEPT !.pc = "element"], cache |-> cache,
                           surface |-> surface])
    /\ bitmaps' = IF ok THEN bitmaps + 1 ELSE bitmaps
    /\ UNCHANGED <<mounted, position, dest>>

\* loadImageElement(image.previewUrl) of getSource settles; its rejection
\* leaves getSource and renderCollage
LoadImageElementDone(p, ok) ==
    /\ passes[p].pc = "element"
    /\ LET pass == passes[p]
           next == afterSource(pass, [cache EXCEPT ![decoding(pass)] = "element"])
       IN  IF ok THEN resume(p, [pass |-> next.pass, cache |-> next.cache, surface |-> surface])
           ELSE resume(p, [pass |-> Ended(pass, "failed"), cache |-> cache,
                           surface |-> surface])
    /\ UNCHANGED <<bitmaps, mounted, position, dest>>

\* pica.resize settles; its rejection leaves renderCollage
ResizeDone(p, ok) ==
    /\ passes[p].pc = "resize"
    /\ LET pass == passes[p]
       IN  IF ok THEN resume(p, afterResample(pass, cache, surface, hasCreateImageBitmap))
           ELSE resume(p, [pass |-> Ended(pass, "failed"), cache |-> cache,
                           surface |-> surface])
    /\ UNCHANGED <<bitmaps, mounted, position, dest>>

(***************************************************************************)
(* The provider and the renderer together, on the last RenderIds image     *)
(* ids.  React flushes the effects of a commit before it renders the next  *)
(* state update or handles the next event, so the provider's operations    *)
(* and the download start from a state whose effects have run; only the    *)
(* completions of awaited promises can come in between.  No reachable pass *)
(* waits in CreateImageBitmapDone: an image has no imageBitmap only where  *)
(* globalThis has no createImageBitmap.                                    *)
(***************************************************************************)
\* navigator.share is missing, canShare refuses the file, or share is called
ShareRoutes == {"unsupported", "refused", "share"}
BackgroundChoices == {"#ffffff", "#000000"}
BackgroundPartials == {[backgroundColor |-> b] : b \in BackgroundChoices}

\* an ImageBitmap has a width and a height of at least one pixel; an <img>
\* element can load a picture that has no intrinsic dimensions
RenderSizes == IF hasCreateImageBitmap THEN {SquareSize} ELSE {SquareSize, NoSize}

InitRender == InitBase(RenderIds) /\ crop = NoCrop /\ clip = NoClip /\ dest = NoDest /\ hasCreateImageBitmap \in BOOLEAN

NextRender ==
    \/ pending = "none" /\ adding = <<>> /\ AddImagesStart(RenderIds)
    \/ pending = "none" /\ \E m \in 0..RenderIds, size \in RenderSizes :
            AddImagesDone(1, m, hasCreateImageBitmap, size)
    \/ pending = "none" /\ \E id \in Ids : RemoveImage(id)
    \/ pending = "none" /\ \E partial \in BackgroundPartials : UpdateSettings(partial)
    \/ Commit
    \/ Download
    \/ \E now \in 0..MaxNow : Share(now)
    \/ \E ok \in BOOLEAN, route \in ShareRoutes : EncodeDone(ok, route)
    \/ \E ok \in BOOLEAN : ShareDone(ok)
    \/ \E p \in Slots, ok \in BOOLEAN : LoadImageElementDone(p, ok)
    \/ \E p \in Slots, ok \in BOOLEAN : ResizeDone(p, ok)

SpecRender == InitRender /\ [][NextRender]_vars

(***************************************************************************)
(* ControlsPanel.tsx, PreviewStage: dragging a slot moves the focal point  *)
(* of its image.  The handlers of all slots share one dragState ref.       *)
(* drag.pressed[pointer] is the id of the image on whose slot the pointer  *)
(* went down and has not yet gone up (0: none): what the browser knows,    *)
(* not something the component stores.  Client coordinates are taken       *)
(* relative to the point where the pointer went down.                      *)
(***************************************************************************)
SlotSize == <<29, 29>>      \* getBoundingClientRect() of every slot: width, height
DragPositions == {0 - SlotSize[1], 0, SlotSize[1]}     \* clientX, clientY of a pointermove

\* Math.max(state.slotWidth / state.imageWidth, state.slotHeight / state.imageHeight)
dragScale(state) ==
    LET byWidth == toDouble(state.slotWidth, state.imageWidth)
        byHeight == toDouble(state.slotHeight, state.imageHeight)
    IN  IF state.slotWidth * state.imageHeight >= state.slotHeight * state.imageWidth
        THEN byWidth ELSE byHeight

\* Math.max(0, imageSize * scale - slotSize): the product is rounded, the
\* difference of a double and a smaller integer is exact
overflow(imageSize, scale, slotSize) ==
    LET product == timesInt(scale, imageSize)
    IN  IF product.int < slotSize THEN [int |-> 0, frac |-> [j \in 1..Limbs |-> 0]]
        ELSE [int |-> product.int - slotSize, frac |-> product.frac]

\* overflow > 0
positive(a) == a.int > 0 \/ \E j \in 1..Limbs : a.frac[j] > 0

\* clamp01(startFocus + delta / overflow) for overflow > 0, in units of 1/FocusDen.
\* An overflow below one pixel makes the quotient of a delta of a pixel or more
\* exceed 1 in magnitude; the whole overflows of the model divide FocusDen * delta.
draggedFocus(startFocus, delta, amount) ==
    IF delta = 0 THEN clamp01(startFocus)
    ELSE IF amount.int = 0 THEN (IF delta > 0 THEN clamp01(startFocus + FocusDen) ELSE clamp01(startFocus - FocusDen))
    ELSE clamp01(startFocus + (FocusDen * delta) \div amount.int)

\* overflowX and overflowY of handlePointerMove
overflows(state) ==
    LET scale == dragScale(state)
    IN  [overflowX |-> overflow(state.imageWidth, scale, state.slotWidth),
         overflowY |-> overflow(state.imageHeight, scale, state.slotHeight)]

\* the overflows of the natural sizes that the specifications use, computed once
DragSizes == {SquareSize, WideSize}
dragOverflows ==
    [size \in DragSizes |->
        overflows([slotWidth |-> SlotSize[1], slotHeight |-> SlotSize[2],
                   imageWidth |-> size[1], imageHeight |-> size[2]])]

\* focusUpdate with the pointer's coordinates taken for each other
focusUpdate_Swapped(state, clientX, clientY) ==
    LET both == overflows(state)
        focusX == draggedFocus(state.startFocusX, clientY - state.startY, both.overflowX)
        focusY == draggedFocus(state.startFocusY, clientX - state.startX, both.overflowY)
    IN  IF positive(both.overflowX) /\ positive(both.overflowY) THEN [focusX |-> focusX, focusY |-> focusY]
        ELSE IF positive(both.overflowX) THEN [focusX |-> focusX]
        ELSE IF positive(both.overflowY) THEN [focusY |-> focusY]
        ELSE [none |-> TRUE]
\* focusUpdate of handlePointerMove
focusUpdate(state, clientX, clientY) ==
    LET size == <<state.imageWidth, state.imageHeight>>
        both == IF size \in DragSizes /\ <<state.slotWidth, state.slotHeight>> = SlotSize
                THEN dragOverflows[size] ELSE overflows(state)
        overflowX == both.overflowX
        overflowY == both.overflowY
        focusX == draggedFocus(state.startFocusX, clientX - state.startX, overflowX)
        focusY == draggedFocus(state.startFocusY, clientY - state.startY, overflowY)
    IN  IF positive(overflowX) /\ positive(overflowY) THEN [focusX |-> focusX, focusY |-> focusY]
        ELSE IF positive(overflowX) THEN [focusX |-> focusX]
        ELSE IF positive(overflowY) THEN [focusY |-> focusY]
        ELSE [none |-> TRUE]

\* slots[slotIndex]?.source
slotSource(imgs, setts, slotIndex) ==
    IF slotIndex < Len(LayoutOf(setts.layoutId).cells) /\ slotIndex < Len(imgs)
    THEN <<imgs[slotIndex + 1]>> ELSE <<>>

\* pointerdown on slot slotIndex
HandlePointerDown(pointer, slotIndex) ==
    /\ drag.pressed[pointer] = 0
    /\ LET source == slotSource(images, settings, slotIndex)
       IN  /\ source # <<>>
           /\ drag' = [dragState |-> [imageId |-> source[1].id, pointerId |-> pointer,
                                      startX |-> 0, startY |-> 0,
                                      startFocusX |-> source[1].focusX,
                                      startFocusY |-> source[1].focusY,
                                      slotWidth |-> SlotSize[1], slotHeight |-> SlotSize[2],
                                      imageWidth |-> source[1].width,
                                      imageHeight |-> source[1].height],
                       activeDragId |-> source[1].id,
                       pressed |-> [drag.pressed EXCEPT ![pointer] = source[1].id],
                       captured |-> drag.captured \cup {pointer}]
    /\ position' = <<0, 0>>
    /\ UNCHANGED <<provVars, rendVars, crop, hasCreateImageBitmap, exporting, clip, bitmaps, mounted, dest>>

\* pointermove of a pressed pointer: handlePointerMove and the setImageFocus it calls
HandlePointerMove(pointer, clientX, clientY) ==
    /\ drag.pressed[pointer] # 0
    /\ LET state == drag.dragState
           update == IF state.pointerId # pointer THEN [none |-> TRUE]
                     ELSE focusUpdate(state, clientX, clientY)
       IN  /\ ~(IsUndefined(update, "focusX") /\ IsUndefined(update, "focusY"))
           /\ images' = focusedImages(images, state.imageId, update)
           /\ pending' = Mark(pending, "images")
    /\ position' = <<clientX, clientY>>
    /\ UNCHANGED <<settings, nextId, released, adding, view, cache, passes, nPasses, surface>>
    /\ UNCHANGED <<crop, hasCreateImageBitmap, exporting, drag, clip, bitmaps, mounted, dest>>

\* pointerup or pointercancel of a pressed pointer: endDrag, after which the
\* browser drops whatever capture the pointer still has
EndDrag(pointer) ==
    /\ drag.pressed[pointer] # 0
    /\ LET state == drag.dragState
           ended == IF state.pointerId # pointer THEN drag
                    ELSE [drag EXCEPT !.dragState = NoDrag.dragState, !.activeDragId = 0]
       IN  drag' = [ended EXCEPT !.pressed[pointer] = 0, !.captured = @ \ {pointer}]
    /\ UNCHANGED <<provVars, rendVars, crop, hasCreateImageBitmap, exporting, clip, bitmaps, mounted, position, dest>>

(***************************************************************************)
(* The provider and the preview stage with two pointers, on the last       *)
(* FocusIds image ids.                                                     *)
(***************************************************************************)
InitDrag == InitBase(FocusIds) /\ crop = NoCrop /\ clip = NoClip /\ dest = NoDest /\ hasCreateImageBitmap = TRUE

NextDrag ==
    \/ AddImagesStart(1)
    \/ \E size \in DragSizes : AddImagesDone(1, 1, TRUE, size)
    \/ \E id \in Ids : RemoveImage(id)
    \/ \E pointer \in Pointers, slotIndex \in 0..(FocusIds - 1) : HandlePointerDown(pointer, slotIndex)
    \/ \E pointer \in Pointers, clientX, clientY \in DragPositions :
            HandlePointerMove(pointer, clientX, clientY)
    \/ \E pointer \in Pointers : EndDrag(pointer)

SpecDrag == InitDrag /\ [][NextDrag]_vars

(***************************************************************************)
(* The clip of one iteration of renderCollage on its own: Init draws the   *)
(* settings (the positions of the gutter and corner radius sliders, and a  *)
(* corner radius that only the stored settings can hold) and the cell, the *)
(* one action computes the rectangle, the radius handed to roundedRect and *)
(* the radius it traces.                                                   *)
(***************************************************************************)
GutterMax == 48
CornerRadiusMax == 64
SliderStep == 4
StoredCornerRadius == 300
SliderGutters == {g \in 0..GutterMax : g % SliderStep = 0}
CornerRadii == {c \in 0..CornerRadiusMax : c % SliderStep = 0} \cup {StoredCornerRadius}
ClipLayouts == {"two-up", "mosaic"}

InitClip ==
    /\ InitBase(MaxIds)
    /\ hasCreateImageBitmap = TRUE
    /\ crop = NoCrop
    /\ dest = NoDest
    /\ clip \in [pc : {"args"},
                  settings : {[DEFAULT_SETTINGS EXCEPT !.layoutId = l, !.gutter = g,
                                                       !.cornerRadius = c] :
                                 l \in ClipLayouts, g \in SliderGutters, c \in CornerRadii},
                  index : {0, 1}]

\* the clip of cell clip.index: lines 182, 191-196 and 235 of renderCollage
traced(args, rect, radius) ==
    [pc |-> "done", settings |-> args.settings, index |-> args.index,
     destWidth |-> rect.destWidth, destHeight |-> rect.destHeight,
     effectiveCornerRadius |-> radius,
     r |-> roundedRect(rect.destWidth, rect.destHeight, radius)]

TraceClip ==
    /\ clip.pc = "args"
    /\ clip' = traced(clip, rectOf(clip.settings, clip.index), effectiveCornerRadius(clip.settings))
    /\ UNCHANGED <<provVars, rendVars, crop, hasCreateImageBitmap, exporting, drag, bitmaps, mounted, position, dest>>

NextClip == TraceClip

SpecClip == InitClip /\ [][NextClip]_vars

(***************************************************************************)
(* The destination rectangles of every cell of a layout, for every layout, *)
(* aspect ratio and gutter of the slider.                                  *)
(***************************************************************************)
InitDest ==
    /\ InitBase(MaxIds)
    /\ hasCreateImageBitmap = TRUE
    /\ crop = NoCrop
    /\ clip = NoClip
    /\ dest \in [pc : {"args"}, layoutId : LayoutIds, aspectRatioId : DOMAIN ASPECT_RATIOS,
                  gutter : SliderGutters]

\* lines 191-196 of renderCollage for every cell of the layout
placed(args) ==
    [pc |-> "done", layoutId |-> args.layoutId, aspectRatioId |-> args.aspectRatioId,
     gutter |-> args.gutter,
     rects |-> [i \in 1..Len(COLLAGE_LAYOUTS[args.layoutId].cells) |->
                   destRect(args.layoutId, args.aspectRatioId, args.gutter, i - 1)]]

PlaceCells ==
    /\ dest.pc = "args"
    /\ dest' = placed(dest)
    /\ UNCHANGED <<provVars, rendVars, crop, hasCreateImageBitmap, exporting, drag, clip, bitmaps, mounted, position>>

NextDest == PlaceCells

SpecDest == InitDest /\ [][NextDest]_vars

\* ---------------------------------------------------------------------------
\* The source cache where createImageBitmap appears after images were added.
\* prepareImage and getSource each test for createImageBitmap when they are
\* called, so images added without a bitmap are decoded by getSource once the
\* function is defined (a polyfill that loads late).

\* the environment defines createImageBitmap
DefineCreateImageBitmap ==
    /\ ~hasCreateImageBitmap
    /\ hasCreateImageBitmap' = TRUE
    /\ UNCHANGED <<provVars, rendVars, crop, exporting, drag, clip, bitmaps, mounted, position, dest>>

\* the cache entries that hold a bitmap decoded by getSource
decodedEntries(c) == {id \in Ids : c[id] = "decoded"}

InitDecode == InitBase(RenderIds) /\ crop = NoCrop /\ clip = NoClip /\ dest = NoDest /\ hasCreateImageBitmap = FALSE

NextDecode ==
    \/ pending = "none" /\ adding = <<>> /\ AddImagesStart(RenderIds)
    \/ pending = "none" /\ \E m \in 0..RenderIds, size \in RenderSizes :
            AddImagesDone(1, m, hasCreateImageBitmap, size)
    \/ pending = "none" /\ \E id \in Ids : RemoveImage(id)
    \/ pending = "none" /\ \E partial \in BackgroundPartials : UpdateSettings(partial)
    \/ Commit
    \/ DefineCreateImageBitmap
    \/ \E p \in Slots, ok \in BOOLEAN : CreateImageBitmapDone(p, ok)
    \/ \E p \in Slots, ok \in BOOLEAN : LoadImageElementDone(p, ok)
    \/ \E p \in Slots, ok \in BOOLEAN : ResizeDone(p, ok)

SpecDecode == InitDecode /\ [][NextDecode]_vars

\* ---------------------------------------------------------------------------
\* The renderer with a gutter read from storage: loadStoredSettings takes any
\* number for the gutter.
StoredGutter == 700

\* Math.round(fraction * size - gutter) <= 0
nonPositive(product, gutter) ==
    product.int < gutter \/ roundDouble(plusHalves(product, 0 - 2 * gutter)) <= 0

\* the width or the height of cell index (0-based), after subtracting the
\* gutter and rounding, is not positive
degenerate(setts, index) ==
    LET cell == LayoutOf(setts.layoutId).cells[index + 1]
        size == targetSize(setts.aspectRatioId)
    IN  \/ nonPositive(timesInt(toDouble(cell[3][1], cell[3][2]), size.width), setts.gutter)
        \/ nonPositive(timesInt(toDouble(cell[4][1], cell[4][2]), size.height), setts.gutter)

InitStored ==
    /\ \E gutter \in {DEFAULT_SETTINGS.gutter, StoredGutter} :
            InitWith(RenderIds, [DEFAULT_SETTINGS EXCEPT !.gutter = gutter])
    /\ crop = NoCrop /\ clip = NoClip /\ dest = NoDest /\ hasCreateImageBitmap = TRUE

NextStored ==
    \/ pending = "none" /\ adding = <<>> /\ AddImagesStart(RenderIds)
    \/ pending = "none" /\ \E m \in 0..RenderIds : AddImagesDone(1, m, TRUE, SquareSize)
    \/ pending = "none" /\ \E id \in Ids : RemoveImage(id)
    \/ pending = "none" /\ \E partial \in BackgroundPartials : UpdateSettings(partial)
    \/ Commit
    \/ \E p \in Slots, ok \in BOOLEAN : ResizeDone(p, ok)

SpecStored == InitStored /\ [][NextStored]_vars

(***************************************************************************)
(* Properties of the provider.                                             *)
(***************************************************************************)
\* C1: in every reachable state, whatever the interleaving of addImages (also
\* overlapping calls), removeImage, clearImages, reorderImages, shuffleImages
\* and updateSettings, the number of active images is at most
\* min(MAX_IMAGES, maxImages of the selected layout).
C1_CapacityInvariant ==
    Len(images) <= Min(MAX_IMAGES, COLLAGE_LAYOUTS[settings.layoutId].maxImages)

\* the cap is reached with more images decoded than fit, another call in flight
C1_Witness ==
    /\ Len(images) = MAX_IMAGES
    /\ nextId > MAX_IMAGES
    /\ adding # <<>>

\* C2: an updateSettings that selects a layout of capacity m < n keeps exactly
\* the first m images in their order and releases each of the n - m trailing
\* images once; with n <= m the image list (and what is released) is unchanged.
C2_LayoutDowngrade ==
    [][\A partial \in LayoutPartials :
          UpdateSettings(partial) =>
            LET m == Min(MAX_IMAGES, COLLAGE_LAYOUTS[partial.layoutId].maxImages)
                n == Len(images)
            IN  IF n > m
                THEN /\ images' = SubSeq(images, 1, m)
                     /\ \A id \in Ids :
                          released'[id] = released[id] +
                             (IF \E i \in (m + 1)..n : images[i].id = id THEN 1 ELSE 0)
                ELSE images' = images /\ released' = released]_vars

\* five images were cut down to the first two by a switch to the two-slot layout
C2_Witness ==
    /\ settings.layoutId = "two-up"
    /\ Len(images) = 2
    /\ \E a, b, c \in Ids :
          /\ a < b /\ b < c
          /\ images[2].id < a
          /\ images[1].id < images[2].id
          /\ released[a] = 1 /\ released[b] = 1 /\ released[c] = 1
          /\ released[images[1].id] = 0 /\ released[images[2].id] = 0

\* C3: every image that addImages decoded and did not add has been released,
\* when no slot is free and when only some of the decoded images fit.
C3_ExcessReleased ==
    [][\A id \in Ids :
          (id > nextId /\ id <= nextId') =>
             (id \in ImageIds(images') \/ released'[id] >= 1)]_vars

\* C4: focusX and focusY of every active image are in [0,1] in every reachable
\* state (1 is FocusDen in the model's units).
C4_FocusInRange ==
    \A i \in 1..Len(images) :
        /\ images[i].focusX >= 0 /\ images[i].focusX <= FocusDen
        /\ images[i].focusY >= 0 /\ images[i].focusY <= FocusDen

\* an image whose focus was set to both clamp limits
C4_Witness ==
    \E i \in 1..Len(images) : images[i].focusX = 0 /\ images[i].focusY = FocusDen

(***************************************************************************)
(* Properties of computeCoverCrop.  Comparisons between fractions are      *)
(* exact.                                                                  *)
(***************************************************************************)
Sub(a, b) == Reduce(a[1] * b[2] - b[1] * a[2], a[2] * b[2])
Times(a, k) == Reduce(a[1] * k, a[2])

\* C5 as stated: the returned window has cw*dh = ch*dw, 0 <= sx <= sw - cw and
\* 0 <= sy <= sh - ch.
C5_ExactCoverCrop ==
    crop.pc = "done" =>
        /\ Times(crop.out.sw, crop.dh) = Times(crop.out.sh, crop.dw)
        /\ Leq(Num(0), crop.out.sx) /\ Leq(crop.out.sx, Sub(Num(crop.sw), crop.out.sw))
        /\ Leq(Num(0), crop.out.sy) /\ Leq(crop.out.sy, Sub(Num(crop.sh), crop.out.sh))

\* the exact cover window: (dw/s, dh/s) with s = max(dw/sw, dh/sh)
ExactWindow(sw, sh, dw, dh) ==
    IF dw * sh >= dh * sw THEN [w |-> Num(sw), h |-> Reduce(dh * sw, dw)]
    ELSE [w |-> Reduce(dw * sh, dh), h |-> Num(sh)]

\* |a - e| <= 3 * 2^-MantBits * e, for e > 0
WithinRounding(a, e) ==
    Abs(a[1] * e[2] - e[1] * a[2]) * Pow2(MantBits) <= 3 * e[1] * a[2]

\* C5 amended: cw and ch are the exact cover window up to the rounding of the
\* floating-point divisions (a relative error of at most 3 units of the last
\* significand bit), and 0 <= sx <= maxOffsetX, 0 <= sy <= maxOffsetY for the
\* offsets max(0, sw - cw), max(0, sh - ch) the function computes.
C5_CoverCropUpToRounding ==
    crop.pc = "done" =>
        LET exact == ExactWindow(crop.sw, crop.sh, crop.dw, crop.dh)
        IN  /\ WithinRounding(crop.out.sw, exact.w)
            /\ WithinRounding(crop.out.sh, exact.h)
            /\ Leq(Num(0), crop.out.sx) /\ Leq(crop.out.sx, crop.out.maxOffsetX)
            /\ Leq(Num(0), crop.out.sy) /\ Leq(crop.out.sy, crop.out.maxOffsetY)

\* a crop that pans: the source is wider than the window and the focus is at
\* the far end, so sx is the whole (positive) slack
C5_Witness ==
    /\ crop.pc = "done"
    /\ crop.fx = FocusDen
    /\ ~Leq(crop.out.sx, Num(0))
    /\ crop.out.sx = crop.out.maxOffsetX

(***************************************************************************)
(* Render passes on the shared surface.                                    *)
(***************************************************************************)
\* C6: rendering is deterministic: when a render pass completes, the surface
\* holds exactly what its inputs (images with their focus, layout, settings,
\* target size) determine (the background, the drawn cells, their
\* destination rectangles, sources and clip radii), whatever renders ran
\* before it and whatever the source cache held.
C6_Deterministic ==
    [][\A p \in Slots :
          (InFlight(passes[p]) /\ passes'[p].pc = "done")
              => surface' = expectedSurface(passes[p].images, passes[p].settings)]_vars

\* C7: at any time at most one render pass that has not been cancelled is in
\* flight against the shared surface.
C7_SingleLivePass ==
    Cardinality({p \in Slots : InFlight(passes[p]) /\ ~passes[p].aborted}) <= 1

\* C8: once the signal of a render pass has been aborted, a step of that pass
\* writes neither to the shared surface nor to its crop canvas, and the pass
\* does not go on to a further cell: it returns (or waits for the element
\* decode that follows a failed bitmap decode).
C8_NoWriteAfterCancel ==
    [][\A p \in Slots :
          (InFlight(passes[p]) /\ passes[p].aborted /\ passes'[p] # passes[p])
              => /\ surface' = surface
                 /\ passes'[p].cropCanvas = passes[p].cropCanvas
                 /\ passes'[p].pc \in {"cancelled", "failed", "element"}]_vars

\* a pass whose signal was aborted while it waited for the resample has
\* resumed and returned at the check that follows the resample
C8_Witness ==
    \E p \in Slots : passes[p].pc = "cancelled" /\ passes[p].cropCanvas = "drawn"

\* C9: a decode failure or a resample failure for one cell does not abort the
\* render pass: no error leaves the render loop, so no pass ends by a failure.
C9_FailureSkipsCell == \A p \in Slots : passes[p].pc # "failed"

\* C10: whenever the change of the active image set has been processed (the
\* effects of the last commit have run and no change is pending), every entry
\* of the source cache belongs to an image of the active set.
C10_CacheWithinActiveSet ==
    pending = "none" => \A id \in Ids : cache[id] # "none" => id \in ImageIds(images)

\* C11: source resolution is memoized by image id: the decode of an image is
\* performed at most once, so no two passes are ever in the decode of the
\* same image at the same time.
C11_DecodeOnce ==
    \A p, q \in Slots :
        (/\ passes[p].pc \in {"bitmap", "element"}
         /\ passes[q].pc \in {"bitmap", "element"}
         /\ decoding(passes[p]) = decoding(passes[q])) => p = q

\* the cells a pass over imgs and setts is to composite, each with the id of
\* the image it is to show
pairing(imgs, setts) ==
    {<<i, imgs[i + 1].id>> : i \in {c \in 0..(Len(LayoutOf(setts.layoutId).cells) - 1) :
                                       c < Len(imgs) /\ imgs[c + 1].width # 0 /\ imgs[c + 1].height # 0}}

\* C17: cell i is paired with image i.  A pass that returns normally has
\* composited exactly the cells whose index has an image of non-zero natural
\* size, each from the image of the same index, and no cell beyond the images;
\* a pass over no images composites nothing.
C17_CellsPairedWithImages ==
    [][\A p \in Slots :
        passes[p].pc # "done" /\ passes'[p].pc = "done" =>
            IF InFlight(passes[p])
            THEN passes'[p].composited = pairing(passes[p].images, passes[p].settings)
            ELSE /\ passes'[p].composited = {}
                 /\ LET over == IF exporting'.encodes # exporting.encodes
                                 THEN exporting'.closure ELSE view'
                    IN  pairing(over.images, over.settings) = {}]_vars

\* a pass over two images, the first of them without natural size, has
\* returned with the second cell composited and nothing else
C17_Witness ==
    \E p \in Slots : /\ passes[p].pc = "done"
                      /\ \E id \in Ids : passes[p].composited = {<<1, id>>}
                      /\ Len(LayoutOf(settings.layoutId).cells) > 2

(***************************************************************************)
(* Exports.                                                                *)
(***************************************************************************)
\* C12: a share whose JPEG encoding succeeded ends in exactly one delivery:
\* the platform share completed, or the blob was saved to disk once; never
\* none and never both.
C12_ShareDelivers ==
    (exporting.op = "share" /\ exporting.stage = "finished" /\ exporting.encoded)
        => Len(exporting.saved) + exporting.shared = 1

\* a share that encoded its blob and, not having shared it, saved it
C12_Witness ==
    /\ exporting.op = "share" /\ exporting.stage = "finished" /\ exporting.blob
    /\ exporting.shared = 0 /\ Len(exporting.saved) = 1

\* C13: when the surface cannot be encoded during an export, nothing is
\* saved, nothing is shared, and no second encode is attempted.
C13_EncodeFailureEndsExport ==
    exporting.failures >= 1
        => exporting.encodes = 1 /\ exporting.saved = <<>> /\ exporting.shared = 0

\* C14: every file handed to saveBlob, by download or by share, is named
\* collage-<aspect ratio id with ':' replaced by '-'>.jpg.
C14_FilenameFromAspectRatio ==
    \A i \in 1..Len(exporting.saved) :
        exporting.saved[i] = downloadFilename(settings.aspectRatioId)

\* C20: the surface an export encodes is the one its own render pass drew:
\* between that pass's clear and the encode no other pass resized, cleared
\* or drew to it.
C20_ExportSurfaceIntact == exporting.intact

(***************************************************************************)
(* Drags on the preview stage.                                             *)
(***************************************************************************)
\* C15: drags by different pointers on different populated cells are
\* independent.  When pointer b goes down on an image while pointer a is
\* dragging another image, a stays the pointer whose moves handlePointerMove
\* applies to its image, and a pointer that goes up leaves no capture behind.
C15_IndependentDrags ==
    [][\A a, b \in Pointers :
        /\ (/\ drag.pressed[a] # 0
            /\ drag.dragState.pointerId = a
            /\ drag.pressed[b] = 0
            /\ drag'.pressed[b] # 0
            /\ drag'.pressed[b] # drag.pressed[a]) =>
               /\ drag'.dragState.pointerId = a
               /\ drag'.dragState.imageId = drag.pressed[a]
        /\ drag.pressed[a] # 0 /\ drag'.pressed[a] = 0 => a \notin drag'.captured]_vars

\* C16: a pointer move leaves the focus of the dragged image unchanged on
\* every axis on which the image, scaled to cover its slot, does not overflow
\* the slot: on x when imageWidth / imageHeight <= slotWidth / slotHeight, on
\* y when it is >=, on both when the aspect ratios are equal.
C16_ZeroOverflowAxisUnchanged ==
    [][\A i \in 1..Len(images) :
        (/\ drag' = drag
         /\ drag.dragState.pointerId # 0
         /\ Len(images') = Len(images)
         /\ images'[i].id = images[i].id
         /\ images[i].id = drag.dragState.imageId) =>
            LET state == drag.dragState
            IN  /\ state.imageWidth * state.slotHeight <= state.slotWidth * state.imageHeight
                       => images'[i].focusX = images[i].focusX
                /\ state.imageWidth * state.slotHeight >= state.slotWidth * state.imageHeight
                       => images'[i].focusY = images[i].focusY]_vars

(***************************************************************************)
(* The clip radius.                                                        *)
(***************************************************************************)
\* C18: the clip radius handed to roundedRect for a cell is
\* max(cornerRadius - gutter/2, 0): 16 for gutter 16 and cornerRadius 24, the
\* cornerRadius itself for gutter 0, never negative; the radius traced is that
\* radius capped at half of the smaller side of the cell.
C18_ClipRadius ==
    clip.pc = "done" =>
        LET gutter == clip.settings.gutter
            cornerRadius == clip.settings.cornerRadius
            radius == clip.effectiveCornerRadius
            smaller == Min(clip.destWidth, clip.destHeight)
        IN  /\ radius[1] >= 0
            /\ radius[1] * 2 = radius[2] * Max(2 * cornerRadius - gutter, 0)
            /\ gutter = 16 /\ cornerRadius = 24 => radius = <<16, 1>>
            /\ gutter = 0 => radius = <<cornerRadius, 1>>
            /\ clip.r[1] >= 0
            /\ IF 2 * radius[1] <= radius[2] * smaller THEN clip.r = radius
               ELSE clip.r[1] * 2 = clip.r[2] * smaller

\* a cell whose radius is reduced by half the gutter and then capped by the
\* cell, and a cell of the default settings
C18_Witness ==
    /\ clip.pc = "done"
    /\ clip.settings.gutter > 0
    /\ clip.effectiveCornerRadius[1] > 0
    /\ Leq(clip.r, clip.effectiveCornerRadius) /\ clip.r # clip.effectiveCornerRadius

(***************************************************************************)
(* Released sources.                                                       *)
(***************************************************************************)
\* C19: the resources of an image are released only after every render pass
\* that was started with the image in its image set has been cancelled or has
\* returned: no pass that is in flight and not cancelled has an image that
\* releaseImage has been called on.
C19_ReleasedAfterPasses ==
    \A p \in Slots :
        InFlight(passes[p]) /\ ~passes[p].aborted =>
            \A i \in 1..Len(passes[p].images) : released[passes[p].images[i].id] = 0
\* C21: every bitmap that getSource decoded is closed exactly once, at the
\* latest when its image is evicted or the renderer unmounts: a decoded bitmap
\* that is not closed is held by a cache entry, whose dispose closes it.
C21_DecodedBitmapsOwned == bitmaps = Cardinality(decodedEntries(cache))

\* an image leaves the active set: it is removed from state.images or the
\* provider unmounts
leaves(id) == mounted /\ id \in ImageIds(images) /\ (id \notin ImageIds(images') \/ ~mounted')

\* C22: an image that leaves the active set through removeImage, clearImages,
\* a layout downgrade or the unmount of the provider is released exactly once,
\* in that step, and no image of the active set has been released.
C22_ReleasedOnLeaving ==
    /\ [](mounted => \A id \in ImageIds(images) : released[id] = 0)
    /\ [][\A id \in Ids : leaves(id) => released[id] = 0 /\ released'[id] = 1]_vars

\* the provider has unmounted with one image active, after another was removed
C22_Witness ==
    /\ ~mounted
    /\ nextId = 2 /\ ImageIds(images) = {2}
    /\ released[1] = 1 /\ released[2] = 1

\* the focus that the drag recorded in state gives an image for the pointer at
\* at, on the axes on which the image overflows its slot
follows(image, state, at) ==
    LET both == dragOverflows[<<state.imageWidth, state.imageHeight>>]
    IN  /\ positive(both.overflowX) =>
               /\ image.focusX = draggedFocus(state.startFocusX, at[1] - state.startX, both.overflowX)
               /\ at[1] = state.startX => image.focusX = state.startFocusX
        /\ positive(both.overflowY) =>
               /\ image.focusY = draggedFocus(state.startFocusY, at[2] - state.startY, both.overflowY)
               /\ at[2] = state.startY => image.focusY = state.startFocusY

\* C23: while a drag is active, the focus of the dragged image on every axis
\* with overflow > 0 is clamp01(startFocus + (pointer - start) / overflow),
\* from the values recorded at the start of the drag and the pointer's last
\* position alone; with the pointer back at the start it is the focus the
\* image had before the drag.
C23_FocusFollowsPointer ==
    \A i \in 1..Len(images) :
        (drag.dragState.pointerId # 0 /\ images[i].id = drag.dragState.imageId) =>
            follows(images[i], drag.dragState, position)

\* the pointer has dragged the wide image by the width of its slot, which
\* takes its focus from the middle to the limit; another image is active
C23_Witness ==
    /\ drag.dragState.pointerId # 0
    /\ position = <<SlotSize[1], 0>>
    /\ Len(images) = 2
    /\ \E i \in 1..2 :
          /\ images[i].id = drag.dragState.imageId
          /\ <<images[i].width, images[i].height>> = WideSize
          /\ drag.dragState.startFocusX = FocusSteps
          /\ images[i].focusX = FocusDen

(***************************************************************************)
(* The gutter between cells.                                               *)
(***************************************************************************)
\* a = b for fractions <<numerator, denominator>>
sameFraction(a, b) == a[1] * b[2] = b[1] * a[2]
\* a < b
below(a, b) == a[1] * b[2] < b[1] * a[2]
\* a + b
sum(a, b) == <<a[1] * b[2] + b[1] * a[2], a[2] * b[2]>>

\* the frame of cell a ends on one axis (at = 1 for x, 2 for y; extent = 3 for
\* width, 4 for height) where the frame of cell b starts, and the two frames
\* overlap on the other axis
adjoins(a, b, at, extent) ==
    /\ sameFraction(sum(a[at], a[extent]), b[at])
    /\ below(a[3 - at], sum(b[3 - at], b[5 - extent]))
    /\ below(b[3 - at], sum(a[3 - at], a[5 - extent]))

\* the pixel p is the rounding of fraction * size + halves / 2: within half a
\* pixel of it
roundingOf(p, fraction, size, halves) ==
    LET twice == 2 * fraction[1] * size + halves * fraction[2]
    IN  /\ 2 * p * fraction[2] - twice <= fraction[2]
        /\ twice - 2 * p * fraction[2] <= fraction[2]

\* C24: for every layout, aspect ratio and gutter of the slider, the
\* destination rectangle of each cell is the cell's frame inset by gutter/2 on
\* each side, rounded to pixels, and the destination rectangles of two cells
\* that share an edge are exactly gutter pixels apart.
C24_GutterBetweenCells ==
    dest.pc = "done" =>
        LET cells == COLLAGE_LAYOUTS[dest.layoutId].cells
            size == targetSize(dest.aspectRatioId)
        IN  /\ \A i \in 1..Len(cells) :
                  LET rect == dest.rects[i]
                  IN  /\ roundingOf(rect.destX, cells[i][1], size.width, dest.gutter)
                      /\ roundingOf(rect.destY, cells[i][2], size.height, dest.gutter)
                      /\ roundingOf(rect.destX + rect.destWidth, sum(cells[i][1], cells[i][3]),
                                    size.width, 0 - dest.gutter)
                      /\ roundingOf(rect.destY + rect.destHeight, sum(cells[i][2], cells[i][4]),
                                    size.height, 0 - dest.gutter)
            /\ \A i, j \in 1..Len(cells) :
                  /\ adjoins(cells[i], cells[j], 1, 3) =>
                        dest.rects[j].destX - (dest.rects[i].destX + dest.rects[i].destWidth)
                            = dest.gutter
                  /\ adjoins(cells[i], cells[j], 2, 4) =>
                        dest.rects[j].destY - (dest.rects[i].destY + dest.rects[i].destHeight)
                            = dest.gutter

\* the mosaic at 4:5 with gutter 16: the frames of cells 1 and 2 meet at
\* y = 472.5, and the cells are drawn 456 and 862 pixels high, from 8 and 480
C24_Witness ==
    /\ dest.pc = "done"
    /\ dest.layoutId = "mosaic" /\ dest.aspectRatioId = "4:5" /\ dest.gutter = 16
    /\ adjoins(COLLAGE_LAYOUTS["mosaic"].cells[2], COLLAGE_LAYOUTS["mosaic"].cells[3], 2, 4)
    /\ dest.rects[2].destY = 8 /\ dest.rects[2].destHeight = 456
    /\ dest.rects[3].destY = 480 /\ dest.rects[3].destHeight = 862

\* C25: a populated cell whose destination width or height, after subtracting
\* the gutter and rounding, is <= 0 is skipped: no pass composites it.
C25_DegenerateCellSkipped ==
    \A p \in Slots : \A c \in passes[p].composited : ~degenerate(passes[p].settings, c[1])

\* C26: every layout has as many cells as its maxImages, at most MAX_IMAGES,
\* so every active image has a cell of the active layout: none is left out of
\* the render.
C26_EveryImageHasCell ==
    /\ \A layoutId \in LayoutIds :
          /\ COLLAGE_LAYOUTS[layoutId].maxImages = Len(COLLAGE_LAYOUTS[layoutId].cells)
          /\ COLLAGE_LAYOUTS[layoutId].maxImages <= MAX_IMAGES
    /\ \A index \in 0..(Len(images) - 1) :
          index < Len(LayoutOf(settings.layoutId).cells)

\* a layout of two cells holds two images, after others were trimmed or refused
C26_Witness ==
    /\ Len(LayoutOf(settings.layoutId).cells) = 2
    /\ Len(images) = 2
    /\ \E id \in Ids : released[id] > 0

\* C27: addImages appends the images it decoded after the existing ones, in
\* the order of the input files and up to the free slots, and leaves the
\* existing images, their order and their focus as they were; the files that
\* failed to decode do not keep the others from being added.
C27_AddImagesAppends ==
    [][nextId' > nextId =>
          LET free == Max(0, maxAllowedFor(settings.layoutId) - Len(images))
              incoming == Min(nextId' - nextId, free)
          IN  /\ Len(images') = Len(images) + incoming
              /\ SubSeq(images', 1, Len(images)) = images
              /\ \A k \in 1..incoming : images'[Len(images) + k].id = nextId + k]_vars

\* two calls have filled the five slots in the order of their files, and the
\* last image of the second call found no slot
C27_Witness ==
    /\ nextId = MAX_IMAGES + 1
    /\ Len(images) = MAX_IMAGES
    /\ \A i \in 1..MAX_IMAGES : images[i].id = i
    /\ released[MAX_IMAGES + 1] = 0

\* the sequence s without the item at index (0-based)
without(s, index) == [i \in 1..(Len(s) - 1) |-> IF i <= index THEN s[i] ELSE s[i + 1]]

\* C28: reorderImages and shuffleImages only permute the list: the images, their
\* number and focus and the settings stay, nothing is released; reorderImages
\* puts the image of fromIndex at toIndex and keeps the order of the others.
C28_ReorderPermutes ==
    /\ [][(images' # images /\ Len(images') = Len(images)) =>
              /\ Range(images') = Range(images)
              /\ settings' = settings /\ released' = released
              /\ nextId' = nextId /\ adding' = adding]_vars
    /\ [](\A fromIndex, toIndex \in 0..(Len(images) - 1) :
              LET next == moveItem(images, fromIndex, toIndex)
              IN  /\ next[toIndex + 1] = images[fromIndex + 1]
                  /\ without(next, toIndex) = without(images, fromIndex))

\* the first of three images has been moved to the end
C28_Witness ==
    /\ nextId = 3 /\ Len(images) = 3
    /\ images[1].id = 2 /\ images[2].id = 3 /\ images[3].id = 1
    /\ \A id \in Ids : released[id] = 0

\* the image a with another focus
refocused(a, b) == b = [a EXCEPT !.focusX = b.focusX, !.focusY = b.focusY]

\* C29: setImageFocus(id, focus) changes nothing but the focus of image id: the
\* other images, the order, the settings and the releases stay; an axis that
\* is not given keeps its value; with an id that is not active the list is
\* left as it is.
C29_SetImageFocusFrame ==
    /\ [][(images' # images /\ Len(images') = Len(images)) =>
              /\ \E i \in 1..Len(images) :
                    /\ refocused(images[i], images'[i])
                    /\ \A j \in 1..Len(images) : j # i => images'[j] = images[j]
              /\ settings' = settings /\ released' = released
              /\ nextId' = nextId /\ adding' = adding]_vars
    /\ [](\A id \in Ids, focus \in FocusUpdates :
              LET next == focusedImages(images, id, focus)
              IN  /\ Len(next) = Len(images)
                  /\ id \notin ImageIds(images) => next = images
                  /\ \A i \in 1..Len(images) :
                        /\ images[i].id # id => next[i] = images[i]
                        /\ refocused(images[i], next[i])
                        /\ IsUndefined(focus, "focusX") => next[i].focusX = images[i].focusX
                        /\ IsUndefined(focus, "focusY") => next[i].focusY = images[i].focusY)

\* the first of two images has its focusX at 0 and its focusY as it was; the
\* second image has the focus it was added with
C29_Witness ==
    /\ Len(images) = 2
    /\ images[1].focusX = 0 /\ images[1].focusY = FocusSteps
    /\ images[2].focusX = FocusSteps /\ images[2].focusY = FocusSteps

(***************************************************************************)
(* The isExporting flag.                                                   *)
(***************************************************************************)
\* the render passes of exports that have not returned
exportPasses == {p \in Slots : passes[p].kind = "export" /\ InFlight(passes[p])}

====
